---- MODULE Spec2Model ----
(***************************************************************************)
(* Expense tracker REST API (Express + Mongoose), backend/routes and the   *)
(* Expense schema.  The state is the `expenses` collection, the requests   *)
(* that are suspended at an `await`, and the response that has just been   *)
(* written.  One action per handler step: a handler with one `await` is    *)
(* one action, PUT and DELETE /:id (findById, then save / deleteOne) are   *)
(* two, GET /stats (three aggregates) is three.                            *)
(*                                                                         *)
(* JSON bodies and query strings are records whose DOMAIN is the set of    *)
(* keys present: a key that is absent reads as JavaScript `undefined`.     *)
(* Amounts and dates travel as strings and are converted as the code and   *)
(* Mongoose convert them (ToNumber, ParseDate); descriptions are sequences *)
(* of one-character strings so that trim, substring and $regex are         *)
(* computed.  Documents carry no createdAt/updatedAt: no route reads them. *)
(* Database outages (the generic catch -> 500 with a healthy driver never  *)
(* fires for them) are outside the model.                                  *)
(*                                                                         *)
(* The server's specifications share the actions: Spec serves the expense  *)
(* routes one request at a time, SpecUsers is registration and the profile *)
(* routes with requests overlapping, SpecRace is POST, PUT and DELETE of   *)
(* expenses with requests overlapping, SpecStats is GET /stats overlapping *)
(* creates and deletes.                                                    *)
(*                                                                         *)
(* The React front end (Expenses page, ExpenseModal, Dashboard) is one     *)
(* action per event handler up to its `await` and one per continuation     *)
(* after it; a continuation uses the `expenses` of the render its handler  *)
(* was created in, and the effect that re-applies the filters is part of   *)
(* every step that changes the list or the filters.  The server answers a  *)
(* browser request in one step, with the same operators the routes use.    *)
(* SpecPage is the list, its filters and deletes, SpecModal is adding and  *)
(* editing through the modal, SpecLoad is the mount-time loading of the    *)
(* two pages, where every request sent eventually settles.                 *)
(***************************************************************************)
EXTENDS Integers, Sequences, FiniteSets, TLC

VARIABLES
    db,        \* the expenses collection: a set of documents, unique _id
    nextId,    \* number of ObjectIds handed out so far (ids are never reused)
    inflight,  \* slot -> the request suspended at an await, or Idle
    resp,      \* the response just written (NoResp once the client took it)
    users,     \* the users collection: a set of documents, unique _id
    page,      \* state of the Expenses page component (pages/Expenses.jsx)
    modal,     \* state of the ExpenseModal component the page renders
    dashboard, \* state of the Dashboard page component and of its two requests
    pending,   \* the Expenses page's requests awaiting their response
    toasts     \* the last toast shown, and whether a request's failure was ever reported

\* The browser's part of the state
ui == <<page, modal, dashboard, pending, toasts>>

vars == <<db, nextId, inflight, resp, users, ui>>

\* ------------------------------------------------------------------ bounds
MaxExpenses == 2
MaxInFlight == 2

\* ------------------------------------------------------------ value domains
Users == {"u1", "u2"}

Categories == {"Food & Dining", "Transportation", "Shopping", "Entertainment",
               "Bills & Utilities", "Healthcare", "Education", "Travel",
               "Personal", "Other"}

PaymentMethods == {"Cash", "Credit Card", "Debit Card", "UPI", "Net Banking", "Other"}

Fields == {"amount", "category", "description", "date", "paymentMethod"}

Slots == 1..MaxInFlight

\* Well-formed ObjectIds are 1, 2, ...; 0 stands for a path segment that is not
\* a 24-hex-digit string ("abc"), which Mongoose cannot cast to an ObjectId.
IdParams == 0..MaxExpenses

IsObjectId(id) == id >= 1

Idle == [op |-> "idle"]

NoResp == [op |-> "none"]

\* ------------------------------------------------------------- conversions
\* A calendar instant, days counted in 31-day months: order, year and month of
\* the dates used are those of the real calendar.
Instant(y, m, d) == (y * 12 + (m - 1)) * 31 + (d - 1)

YearOf(t) == t \div (12 * 31)

MonthOf(t) == ((t \div 31) % 12) + 1

\* validator isISO8601 on the strings the clients send
IsISO8601(s) == s \in {"2024-01-15", "2024-03-10", "2024-08-20"}

\* new Date(s) / Mongoose's cast of a date string
ParseDate(s) ==
    CASE s = "2024-01-15" -> Instant(2024, 1, 15)
      [] s = "2024-03-10" -> Instant(2024, 3, 10)
      [] s = "2024-08-20" -> Instant(2024, 8, 20)

\* Date.now() / new Date() at the requests of the model
Nows == {Instant(2024, 8, 20)}

\* Strings that parse as a finite decimal number
IsNumeric(s) == s \in {"-1", "0", "1", "2"}

\* parseFloat(s) / Mongoose's cast of a numeric string to Number
ToNumber(s) ==
    CASE s = "-1" -> 0 - 1
      [] s = "0" -> 0
      [] s = "1" -> 1
      [] s = "2" -> 2

\* validator isFloat({ min: 0 })
IsFloatMin0(s) == IsNumeric(s) /\ ToNumber(s) >= 0

RECURSIVE TrimLeft(_)
TrimLeft(s) == IF s # <<>> /\ Head(s) = " " THEN TrimLeft(Tail(s)) ELSE s

RECURSIVE TrimRight(_)
TrimRight(s) ==
    IF s # <<>> /\ s[Len(s)] = " " THEN TrimRight(SubSeq(s, 1, Len(s) - 1)) ELSE s

\* String.prototype.trim, as the validator's trim() sanitizer and the schema's
\* trim: true apply it
Trim(s) == TrimRight(TrimLeft(s))

ToLower(c) ==
    CASE c = "A" -> "a"
      [] c = "B" -> "b"
      [] OTHER -> c

Has(r, k) == k \in DOMAIN r

RECURSIVE SumAmounts(_)
SumAmounts(S) ==
    IF S = {} THEN 0
    ELSE LET d == CHOOSE x \in S : TRUE IN d.amount + SumAmounts(S \ {d})

\* All orderings of the finite set S
RECURSIVE Orderings(_)
Orderings(S) ==
    IF S = {} THEN {<<>>}
    ELSE UNION {{<<x>> \o f : f \in Orderings(S \ {x})} : x \in S}

\* --------------------------------------------------------------- Expense model
\* The enum validators are missing: only min and required are checked.
SchemaErrorsNoEnum(doc) ==
    {f \in Fields :
        \/ f = "amount" /\ doc.amount < 0
        \/ f = "description" /\ doc.description = <<>>}

\* Mongoose document validation of the Expense schema (required, min, enum):
\* the set of paths that fail.
SchemaErrors(doc) ==
    {f \in Fields :
        \/ f = "amount" /\ doc.amount < 0
        \/ f = "category" /\ doc.category \notin Categories
        \/ f = "description" /\ doc.description = <<>>
        \/ f = "paymentMethod" /\ doc.paymentMethod \notin PaymentMethods}

\* Expense.findById(id): the set holding the document, or {} for null
FindById(coll, id) == {d \in coll : d._id = id}

\* ------------------------------------------------------------ POST /expenses
\* isFloat() without { min: 0 }: a negative amount passes.
CreateErrorsNoMin(body) ==
    {f \in Fields :
        \/ f = "amount" /\ ~(Has(body, "amount") /\ IsNumeric(body.amount))
        \/ f = "category" /\ ~(Has(body, "category") /\ body.category # "")
        \/ f = "description" /\ ~(Has(body, "description") /\ Trim(body.description) # <<>>)
        \/ f = "date" /\ Has(body, "date") /\ ~IsISO8601(body.date)
        \/ f = "paymentMethod" /\ ~(Has(body, "paymentMethod") /\ body.paymentMethod # "")}

\* The express-validator chain of POST /: the fields with an error.
CreateErrors(body) ==
    {f \in Fields :
        \/ f = "amount" /\ ~(Has(body, "amount") /\ IsFloatMin0(body.amount))
        \/ f = "category" /\ ~(Has(body, "category") /\ body.category # "")
        \/ f = "description" /\ ~(Has(body, "description") /\ Trim(body.description) # <<>>)
        \/ f = "date" /\ Has(body, "date") /\ ~IsISO8601(body.date)
        \/ f = "paymentMethod" /\ ~(Has(body, "paymentMethod") /\ body.paymentMethod # "")}

\* A body's userId is used instead of the caller's.
NewExpenseTrustsBody(u, body, id, now) ==
    [_id |-> id,
     userId |-> IF Has(body, "userId") THEN body.userId ELSE u,
     amount |-> ToNumber(body.amount),
     category |-> body.category,
     description |-> Trim(body.description),
     date |-> IF Has(body, "date") /\ body.date # "" THEN ParseDate(body.date) ELSE now,
     paymentMethod |-> body.paymentMethod]

\* The document Expense.create builds from a validated body.
NewExpense(u, body, id, now) ==
    [_id |-> id,
     userId |-> u,
     amount |-> ToNumber(body.amount),
     category |-> body.category,
     description |-> Trim(body.description),
     date |-> IF Has(body, "date") /\ body.date # "" THEN ParseDate(body.date) ELSE now,
     paymentMethod |-> body.paymentMethod]

ValidCreate == [amount |-> "2", category |-> "Food & Dining",
                description |-> <<"A", "b">>, date |-> "2024-01-15",
                paymentMethod |-> "Cash"]

\* Request bodies of POST /expenses
CreateBodies ==
    { ValidCreate,
      [amount |-> "1", category |-> "Travel", description |-> <<" ", "b">>,
       paymentMethod |-> "UPI", userId |-> "u2"],
      [ValidCreate EXCEPT !.amount = "-1"],
      [ValidCreate EXCEPT !.amount = "abc"],
      [ValidCreate EXCEPT !.category = ""],
      [ValidCreate EXCEPT !.description = <<" ">>],
      [ValidCreate EXCEPT !.date = "15/01/2024"],
      [ValidCreate EXCEPT !.paymentMethod = ""],
      [ValidCreate EXCEPT !.category = "Groceries"],
      [category |-> "Travel", description |-> <<"b">>, paymentMethod |-> "UPI"],
      [amount |-> "1", description |-> <<"b">>, paymentMethod |-> "UPI"],
      [amount |-> "1", category |-> "Travel", paymentMethod |-> "UPI"],
      [amount |-> "1", category |-> "Travel", description |-> <<"b">>] }

CreateExpense(u, body, now) ==
    /\ resp = NoResp
    /\ nextId < MaxExpenses
    /\ LET errors == CreateErrors(body)
           doc == NewExpense(u, body, nextId + 1, now)
       IN IF errors # {}
          THEN /\ resp' = [op |-> "create", caller |-> u, req |-> body,
                           status |-> 400, body |-> [errors |-> errors]]
               /\ UNCHANGED <<db, nextId>>
          ELSE IF SchemaErrors(doc) # {}
          THEN /\ resp' = [op |-> "create", caller |-> u, req |-> body,
                           status |-> 500, body |-> [message |-> "Server error"]]
               /\ UNCHANGED <<db, nextId>>
          ELSE /\ db' = db \cup {doc}
               /\ nextId' = nextId + 1
               /\ resp' = [op |-> "create", caller |-> u, req |-> body,
                           status |-> 201, body |-> doc]
    /\ UNCHANGED <<inflight, users, ui>>

\* ------------------------------------------------- /expenses/:id, common part
\* The ownership test is skipped.
OwnsExpenseAlways(doc, u) == TRUE

\* expense.userId.toString() === req.user._id.toString()
OwnsExpense(doc, u) == doc.userId = u

\* A missing expense passes for someone else's: 401 instead of 404.
AccessStatusNoNotFound(coll, u, id) ==
    IF ~IsObjectId(id) THEN 500
    ELSE IF \E d \in FindById(coll, id) : OwnsExpense(d, u) THEN 200
    ELSE 401

\* What findById and the two checks that follow it decide: 500 (CastError,
\* caught), 404, 401, or 200 to go on.
AccessStatus(coll, u, id) ==
    IF ~IsObjectId(id) THEN 500
    ELSE IF FindById(coll, id) = {} THEN 404
    ELSE IF ~OwnsExpense(CHOOSE d \in FindById(coll, id) : TRUE, u) THEN 401
    ELSE 200

ErrorBody(status) ==
    CASE status = 500 -> [message |-> "Server error"]
      [] status = 404 -> [message |-> "Expense not found"]
      [] status = 401 -> [message |-> "Not authorized"]

\* ------------------------------------------------------- GET /expenses/:id
GetExpense(u, id) ==
    /\ resp = NoResp
    /\ LET st == AccessStatus(db, u, id)
       IN resp' = [op |-> "get", caller |-> u, id |-> id, status |-> st,
                   body |-> IF st = 200 THEN CHOOSE d \in FindById(db, id) : TRUE
                            ELSE ErrorBody(st)]
    /\ UNCHANGED <<db, nextId, inflight, users, ui>>

\* ------------------------------------------------------- PUT /expenses/:id
\* The express-validator chain of PUT /:id: the fields with an error.
UpdateErrors(body) ==
    {f \in Fields :
        \/ f = "amount" /\ Has(body, "amount") /\ ~IsFloatMin0(body.amount)
        \/ f = "description" /\ Has(body, "description") /\ Trim(body.description) = <<>>
        \/ f = "date" /\ Has(body, "date") /\ ~IsISO8601(body.date)}

\* Every field is taken from the body; one the body omits is reset.
AssignFieldsResetting(doc, body) ==
    [doc EXCEPT
        !.amount = IF Has(body, "amount") THEN ToNumber(body.amount) ELSE 0,
        !.category = IF Has(body, "category") /\ body.category # ""
                     THEN body.category ELSE "Other",
        !.description = IF Has(body, "description") /\ Trim(body.description) # <<>>
                        THEN Trim(body.description) ELSE <<"b">>,
        !.date = IF Has(body, "date") /\ body.date # ""
                 THEN ParseDate(body.date) ELSE Instant(2024, 8, 20),
        !.paymentMethod = IF Has(body, "paymentMethod") /\ body.paymentMethod # ""
                          THEN body.paymentMethod ELSE "Other"]

\* The five assignments of PUT /:id on the document findById returned
\* (amount !== undefined ? amount : old; x || old for the others).
AssignFields(doc, body) ==
    [doc EXCEPT
        !.amount = IF Has(body, "amount") THEN ToNumber(body.amount) ELSE @,
        !.category = IF Has(body, "category") /\ body.category # ""
                     THEN body.category ELSE @,
        !.description = IF Has(body, "description") /\ Trim(body.description) # <<>>
                        THEN Trim(body.description) ELSE @,
        !.date = IF Has(body, "date") /\ body.date # ""
                 THEN ParseDate(body.date) ELSE @,
        !.paymentMethod = IF Has(body, "paymentMethod") /\ body.paymentMethod # ""
                          THEN body.paymentMethod ELSE @]

\* Mongoose marks a path modified when the value assigned differs from the one read.
ModifiedPaths(old, new) == {f \in Fields : new[f] # old[f]}

\* The whole document in memory replaces the stored one.
ReplaceWhole(stored, doc, paths) == doc

\* updateOne({_id}, {$set: the modified paths}) on the stored document
ApplySet(stored, doc, paths) ==
    [f \in DOMAIN stored |-> IF f \in paths THEN doc[f] ELSE stored[f]]

\* Request bodies of PUT /expenses/:id
UpdateBodies ==
    { [amount |-> "0", userId |-> "u2"],
      [category |-> "Travel", description |-> <<" ", "b">>, date |-> "2024-03-10",
       paymentMethod |-> "UPI"],
      [category |-> "", paymentMethod |-> ""],
      [amount |-> "-1"],
      [description |-> <<" ">>],
      [date |-> "15/01/2024"],
      [category |-> "Groceries"] }

\* validation, findById, the 404 and 401 checks, the assignments; suspends at save()
UpdateExpenseRead(s, u, id, body) ==
    /\ inflight[s] = Idle
    /\ resp = NoResp
    /\ LET errors == UpdateErrors(body)
           st == AccessStatus(db, u, id)
           old == CHOOSE d \in FindById(db, id) : TRUE
       IN IF errors # {}
          THEN /\ resp' = [op |-> "put", caller |-> u, id |-> id, req |-> body,
                           status |-> 400, body |-> [errors |-> errors]]
               /\ UNCHANGED inflight
          ELSE IF st # 200
          THEN /\ resp' = [op |-> "put", caller |-> u, id |-> id, req |-> body,
                           status |-> st, body |-> ErrorBody(st)]
               /\ UNCHANGED inflight
          ELSE /\ inflight' = [inflight EXCEPT ![s] =
                                  [op |-> "put", caller |-> u, id |-> id, req |-> body,
                                   doc |-> AssignFields(old, body),
                                   modified |-> ModifiedPaths(old, AssignFields(old, body))]]
               /\ UNCHANGED resp
    /\ UNCHANGED <<db, nextId, users, ui>>

\* save() as an upsert: the document in memory is written whole, a document
\* that is gone is written back.
UpdateExpenseSaveUpsert(s) ==
    /\ inflight[s].op = "put"
    /\ resp = NoResp
    /\ LET r == inflight[s]
       IN /\ db' = (db \ FindById(db, r.id)) \cup {r.doc}
          /\ resp' = [op |-> "put", caller |-> r.caller, id |-> r.id, req |-> r.req,
                      status |-> 200, body |-> r.doc]
    /\ inflight' = [inflight EXCEPT ![s] = Idle]
    /\ UNCHANGED <<nextId, users, ui>>

\* The body's userId is assigned and saved with the other fields.
UpdateExpenseSaveTrustsBody(s) ==
    /\ inflight[s].op = "put"
    /\ resp = NoResp
    /\ LET r == inflight[s]
           stored == FindById(db, r.id)
           owner(d) == IF Has(r.req, "userId") THEN [d EXCEPT !.userId = r.req.userId] ELSE d
       IN IF SchemaErrors(r.doc) # {} \/ stored = {}
          THEN /\ resp' = [op |-> "put", caller |-> r.caller, id |-> r.id, req |-> r.req,
                           status |-> 500, body |-> ErrorBody(500)]
               /\ UNCHANGED db
          ELSE /\ db' = (db \ stored)
                           \cup {owner(ApplySet(CHOOSE d \in stored : TRUE, r.doc, r.modified))}
               /\ resp' = [op |-> "put", caller |-> r.caller, id |-> r.id, req |-> r.req,
                           status |-> 200, body |-> owner(r.doc)]
    /\ inflight' = [inflight EXCEPT ![s] = Idle]
    /\ UNCHANGED <<nextId, users, ui>>

\* expense.save(): validate, $set the modified paths, answer with the document in memory
UpdateExpenseSave(s) ==
    /\ inflight[s].op = "put"
    /\ resp = NoResp
    /\ LET r == inflight[s]
           stored == FindById(db, r.id)
       IN IF SchemaErrors(r.doc) # {} \/ stored = {}
          THEN \* ValidationError, or DocumentNotFoundError when the document is gone
               /\ resp' = [op |-> "put", caller |-> r.caller, id |-> r.id, req |-> r.req,
                           status |-> 500, body |-> ErrorBody(500)]
               /\ UNCHANGED db
          ELSE /\ db' = (db \ stored)
                           \cup {ApplySet(CHOOSE d \in stored : TRUE, r.doc, r.modified)}
               /\ resp' = [op |-> "put", caller |-> r.caller, id |-> r.id, req |-> r.req,
                           status |-> 200, body |-> r.doc]
    /\ inflight' = [inflight EXCEPT ![s] = Idle]
    /\ UNCHANGED <<nextId, users, ui>>

\* ---------------------------------------------------- DELETE /expenses/:id
\* findById and the 404 and 401 checks; suspends at deleteOne()
DeleteExpenseRead(s, u, id) ==
    /\ inflight[s] = Idle
    /\ resp = NoResp
    /\ LET st == AccessStatus(db, u, id)
       IN IF st # 200
          THEN /\ resp' = [op |-> "delete", caller |-> u, id |-> id,
                           status |-> st, body |-> ErrorBody(st)]
               /\ UNCHANGED inflight
          ELSE /\ inflight' = [inflight EXCEPT ![s] =
                                  [op |-> "delete", caller |-> u, id |-> id]]
               /\ UNCHANGED resp
    /\ UNCHANGED <<db, nextId, users, ui>>

\* The document is kept.
RemoveNothing(coll, id) == coll

\* expense.deleteOne(): deleteOne({_id}), no error when nothing matches
RemoveById(coll, id) == coll \ FindById(coll, id)

DeleteExpenseRemove(s) ==
    /\ inflight[s].op = "delete"
    /\ resp = NoResp
    /\ db' = RemoveById(db, inflight[s].id)
    /\ resp' = [op |-> "delete", caller |-> inflight[s].caller, id |-> inflight[s].id,
                status |-> 200, body |-> [message |-> "Expense removed"]]
    /\ inflight' = [inflight EXCEPT ![s] = Idle]
    /\ UNCHANGED <<nextId, users, ui>>

\* ------------------------------------------------------------ GET /expenses
\* The regular expression `p` ('.' matches any character, every other character
\* of the model itself; option i) matches `text` at position i.
RegexMatchesAt(p, text, i) ==
    /\ i + Len(p) - 1 <= Len(text)
    /\ \A j \in 1..Len(p) : p[j] = "." \/ ToLower(p[j]) = ToLower(text[i + j - 1])

\* { $regex: p, $options: 'i' }: an unanchored match somewhere in text
RegexSearch(p, text) == \E i \in 1..(Len(text) + 1) : RegexMatchesAt(p, text, i)

NoKeys == [k \in {} |-> {}]

\* A userId in the query string replaces the caller's.
BuildQueryTrustsParam(u, q) ==
    [userId |-> IF Has(q, "userId") THEN q.userId ELSE u]

\* The filter GET / builds from req.query, scoped by the caller's id.
BuildQuery(u, q) ==
    [userId |-> u]
    @@ (IF Has(q, "search") /\ q.search # <<>>
        THEN [description |-> [regex |-> q.search, options |-> "i"]] ELSE NoKeys)
    @@ (IF Has(q, "category") /\ q.category # ""
        THEN [category |-> q.category] ELSE NoKeys)
    @@ (IF (Has(q, "startDate") /\ q.startDate # "") \/ (Has(q, "endDate") /\ q.endDate # "")
        THEN [date |->
                (IF Has(q, "startDate") /\ q.startDate # ""
                 THEN [gte |-> ParseDate(q.startDate)] ELSE NoKeys)
                @@ (IF Has(q, "endDate") /\ q.endDate # ""
                    THEN [lte |-> ParseDate(q.endDate)] ELSE NoKeys)]
        ELSE NoKeys)
    @@ (IF (Has(q, "minAmount") /\ q.minAmount # "") \/ (Has(q, "maxAmount") /\ q.maxAmount # "")
        THEN [amount |->
                (IF Has(q, "minAmount") /\ q.minAmount # ""
                 THEN [gte |-> ToNumber(q.minAmount)] ELSE NoKeys)
                @@ (IF Has(q, "maxAmount") /\ q.maxAmount # ""
                    THEN [lte |-> ToNumber(q.maxAmount)] ELSE NoKeys)]
        ELSE NoKeys)

\* MongoDB's match of one document against the filter
Matches(doc, query) ==
    /\ doc.userId = query.userId
    /\ Has(query, "description") => RegexSearch(query.description.regex, doc.description)
    /\ Has(query, "category") => doc.category = query.category
    /\ Has(query, "date") =>
          /\ Has(query.date, "gte") => doc.date >= query.date.gte
          /\ Has(query.date, "lte") => doc.date <= query.date.lte
    /\ Has(query, "amount") =>
          /\ Has(query.amount, "gte") => doc.amount >= query.amount.gte
          /\ Has(query.amount, "lte") => doc.amount <= query.amount.lte

\* Expense.find(query)
Find(coll, query) == {d \in coll : Matches(d, query)}

\* Oldest first.
SortByDateAsc(S) ==
    {f \in Orderings(S) : \A i \in 1..(Len(f) - 1) : f[i].date <= f[i + 1].date}

\* .sort({ date: -1 }): the orders MongoDB may return (equal dates in any order)
SortByDateDesc(S) ==
    {f \in Orderings(S) : \A i \in 1..(Len(f) - 1) : f[i].date >= f[i + 1].date}

\* Query strings of GET /expenses
ListQueries ==
    { [limit |-> "5"],
      [userId |-> "u2"],
      [search |-> <<"a">>],
      [search |-> <<".">>],
      [category |-> "Travel"],
      [startDate |-> "2024-03-10"],
      [endDate |-> "2024-03-10"],
      [minAmount |-> "2"],
      [maxAmount |-> "0"],
      [search |-> <<"b">>, category |-> "Travel", startDate |-> "2024-01-15",
       endDate |-> "2024-03-10", minAmount |-> "0", maxAmount |-> "1"],
      [startDate |-> "2024-03-10", endDate |-> "2024-01-15"],
      [search |-> <<>>, category |-> "", startDate |-> "", endDate |-> "",
       minAmount |-> "", maxAmount |-> ""] }

ListExpenses(u, q) ==
    /\ resp = NoResp
    /\ LET found == Find(db, BuildQuery(u, q))
       IN \E items \in SortByDateDesc(found) :
           resp' = [op |-> "list", caller |-> u, req |-> q, status |-> 200,
                    body |-> [items |-> items]]
    /\ UNCHANGED <<db, nextId, inflight, users, ui>>

\* ------------------------------------------------------ GET /expenses/stats
\* Every user's expenses are summed.
MatchEveryone(coll, u) == coll

\* { $match: { userId } }
MatchUser(coll, u) == {d \in coll : d.userId = u}

\* [{ $match: { userId } }, { $group: { _id: null, total: { $sum: '$amount' } } }]
AggregateTotal(coll, u) ==
    IF MatchUser(coll, u) = {} THEN <<>>
    ELSE <<[_id |-> "null", total |-> SumAmounts(MatchUser(coll, u))]>>

\* The `|| 0` default is missing: no total for an empty result (shown as -1).
TotalWithoutDefault(agg) == IF agg = <<>> THEN 0 - 1 ELSE agg[1].total

\* totalExpenses[0]?.total || 0
TotalOrZero(agg) == IF agg = <<>> THEN 0 ELSE agg[1].total

\* $group by category with $sum of amount and a count
GroupByCategory(S) ==
    {[_id |-> c,
      total |-> SumAmounts({d \in S : d.category = c}),
      count |-> Cardinality({d \in S : d.category = c})] : c \in {d.category : d \in S}}

\* Smallest total first.
SortByTotalAsc(G) ==
    {f \in Orderings(G) : \A i \in 1..(Len(f) - 1) : f[i].total <= f[i + 1].total}

\* { $sort: { total: -1 } }: the orders MongoDB may return
SortByTotalDesc(G) ==
    {f \in Orderings(G) : \A i \in 1..(Len(f) - 1) : f[i].total >= f[i + 1].total}

\* No cutoff: every month since the epoch is reported.
NoCutoff(now) == 0

\* sixMonthsAgo.setMonth(sixMonthsAgo.getMonth() - 6)
SixMonthsBefore(now) == now - 6 * 31

\* $group by { year, month } of date with $sum of amount and a count
GroupByMonth(S) ==
    {[_id |-> ym,
      total |-> SumAmounts({d \in S : <<YearOf(d.date), MonthOf(d.date)>> = ym}),
      count |-> Cardinality({d \in S : <<YearOf(d.date), MonthOf(d.date)>> = ym})] :
        ym \in {<<YearOf(d.date), MonthOf(d.date)>> : d \in S}}

\* { $sort: { '_id.year': 1, '_id.month': 1 } }
SortByMonthAsc(G) ==
    {f \in Orderings(G) : \A i \in 1..(Len(f) - 1) :
        \/ f[i]._id[1] < f[i + 1]._id[1]
        \/ f[i]._id[1] = f[i + 1]._id[1] /\ f[i]._id[2] < f[i + 1]._id[2]}

\* first aggregate: the total
StatsTotal(s, u) ==
    /\ inflight[s] = Idle
    /\ resp = NoResp
    /\ inflight' = [inflight EXCEPT ![s] =
                       [op |-> "stats", pc |-> "byCategory", caller |-> u,
                        total |-> AggregateTotal(db, u)]]
    /\ UNCHANGED <<db, nextId, resp, users, ui>>

\* second aggregate: per category
StatsByCategory(s) ==
    /\ inflight[s].op = "stats"
    /\ inflight[s].pc = "byCategory"
    /\ resp = NoResp
    /\ \E byCategory \in SortByTotalDesc(GroupByCategory(MatchUser(db, inflight[s].caller))) :
           inflight' = [inflight EXCEPT ![s] =
                           [op |-> "stats", pc |-> "monthly", caller |-> inflight[s].caller,
                            total |-> inflight[s].total, byCategory |-> byCategory]]
    /\ UNCHANGED <<db, nextId, resp, users, ui>>

\* third aggregate: per month of the last six months; then the response
StatsMonthly(s, now) ==
    /\ inflight[s].op = "stats"
    /\ inflight[s].pc = "monthly"
    /\ resp = NoResp
    /\ \E monthly \in SortByMonthAsc(GroupByMonth(
                         {d \in MatchUser(db, inflight[s].caller) :
                              d.date >= SixMonthsBefore(now)})) :
           resp' = [op |-> "stats", caller |-> inflight[s].caller, status |-> 200,
                    body |-> [totalExpenses |-> TotalOrZero(inflight[s].total),
                              byCategory |-> inflight[s].byCategory,
                              monthlyExpenses |-> monthly]]
    /\ inflight' = [inflight EXCEPT ![s] = Idle]
    /\ UNCHANGED <<db, nextId, users, ui>>

\* ------------------------------------------------------------ auth middleware
\* Bearer tokens the clients send: none, one that fails verification, and the
\* tokens issued to the users.
Tokens == {"", "bad", "token-u1", "token-u2"}

NoUser == "nobody"

\* protect: the user a token resolves to (attached as req.user), or NoUser
\* when the header is missing or the token does not verify.
Protect(tok) ==
    CASE tok = "token-u1" -> "u1"
      [] tok = "token-u2" -> "u2"
      [] OTHER -> NoUser

\* The users whose requests pass protect
Authenticated == {Protect(tok) : tok \in Tokens} \ {NoUser}

\* The routes of the two routers
Routes == {"GET /api/users/profile", "PUT /api/users/profile",
           "GET /api/expenses", "GET /api/expenses/stats", "POST /api/expenses",
           "GET /api/expenses/:id", "PUT /api/expenses/:id", "DELETE /api/expenses/:id"}

\* The list route is registered without protect.
UsesProtectExceptList(route) == route # "GET /api/expenses"

\* protect is the first middleware of the route
UsesProtect(route) == route \in Routes

\* A request whose bearer token is missing or invalid: protect answers 401 and
\* the handler is not run.  (A handler reached without protect has no
\* req.user: req.user._id throws inside its try block, 500.)
RejectUnauthenticated(route, tok) ==
    /\ resp = NoResp
    /\ Protect(tok) = NoUser
    /\ resp' = [op |-> "auth", route |-> route, token |-> tok,
                status |-> IF UsesProtect(route) THEN 401 ELSE 500,
                body |-> IF UsesProtect(route) THEN [message |-> "Not authorized"]
                         ELSE [message |-> "Server error"]]
    /\ UNCHANGED <<db, nextId, inflight, users, ui>>

\* -------------------------------------------------------------------- users
\* The User schema: name, email (unique, lowercase), password (hashed), and
\* the optional bio, avatar and phone, which a document holds only once set.
UserFields == {"name", "email", "bio", "phone", "avatar"}

\* Ids of the user documents, in the order registration hands them out
UserIds == <<"u1", "u2">>

\* validator isEmail on the strings the clients send
IsEmail(e) == e \in {"a@x.com", "A@x.com", "b@x.com", "c@x.com"}

\* The schema's lowercase: true setter (String.prototype.toLowerCase)
LowerCase(e) == IF e = "A@x.com" THEN "a@x.com" ELSE e

\* bcrypt hash of a password
HashPassword(p) == IF p = "secret1" THEN "$2a$10$hash1" ELSE "$2a$10$hash2"

\* The token registration and login issue to a user
TokenOf(u) == CHOOSE tok \in Tokens : Protect(tok) = u

\* User.findById(id): the set holding the document, or {} for null
FindUserById(coll, id) == {x \in coll : x._id = id}

\* User.findOne({ email }): Mongoose casts the filter with the path's setters
FindUserByEmail(coll, email) == {x \in coll : x.email = LowerCase(email)}

\* The collection has no unique index on email.
NoUniqueIndex(coll, doc) == FALSE

\* The unique index on email rejects the write of doc (E11000 duplicate key)
DuplicateKey(coll, doc) == \E x \in coll : x._id # doc._id /\ x.email = doc.email

\* Request bodies of POST /api/auth/register
RegisterBodies ==
    { [name |-> <<"A">>, email |-> "a@x.com", password |-> "secret1"],
      [name |-> <<"A">>, email |-> "A@x.com", password |-> "secret2"],
      [name |-> <<" ", "B">>, email |-> "b@x.com", password |-> "secret2"] }

\* POST /api/auth/register: creates the user unless the email is taken
Register(body) ==
    /\ resp = NoResp
    /\ Cardinality(users) < Len(UserIds)
    /\ LET doc == [_id |-> UserIds[Cardinality(users) + 1],
                   name |-> Trim(body.name),
                   email |-> LowerCase(body.email),
                   password |-> HashPassword(body.password)]
       IN IF DuplicateKey(users, doc)
          THEN /\ resp' = [op |-> "register", req |-> body, status |-> 400,
                           body |-> [message |-> "User already exists"]]
               /\ UNCHANGED users
          ELSE /\ users' = users \cup {doc}
               /\ resp' = [op |-> "register", req |-> body, status |-> 201,
                           body |-> [token |-> TokenOf(doc._id),
                                     user |-> [_id |-> doc._id, name |-> doc.name,
                                               email |-> doc.email]]]
    /\ UNCHANGED <<db, nextId, inflight, ui>>

\* GET /api/users/profile: the stored document as it is
GetProfile(u) ==
    /\ resp = NoResp
    /\ FindUserById(users, u) # {}
    /\ resp' = [op |-> "getProfile", caller |-> u, status |-> 200,
                body |-> CHOOSE x \in FindUserById(users, u) : TRUE]
    /\ UNCHANGED <<db, nextId, inflight, users, ui>>

\* The express-validator chain of PUT /profile: the fields with an error.
ProfileErrors(body) ==
    {f \in UserFields :
        \/ f = "name" /\ Has(body, "name") /\ Trim(body.name) = <<>>
        \/ f = "email" /\ Has(body, "email") /\ ~IsEmail(body.email)}

\* The five assignments of PUT /profile on the document findById returned
\* (x || old for name and email; x !== undefined ? x : old for the others,
\* which stay undefined when neither the body nor the document has them).
AssignProfile(user, body) ==
    [_id |-> user._id,
     name |-> IF Has(body, "name") /\ Trim(body.name) # <<>>
              THEN Trim(body.name) ELSE user.name,
     email |-> IF Has(body, "email") /\ body.email # ""
               THEN LowerCase(body.email) ELSE user.email,
     password |-> user.password]
    @@ (IF Has(body, "bio") THEN [bio |-> Trim(body.bio)]
        ELSE IF Has(user, "bio") THEN [bio |-> user.bio] ELSE NoKeys)
    @@ (IF Has(body, "phone") THEN [phone |-> Trim(body.phone)]
        ELSE IF Has(user, "phone") THEN [phone |-> user.phone] ELSE NoKeys)
    @@ (IF Has(body, "avatar") THEN [avatar |-> body.avatar]
        ELSE IF Has(user, "avatar") THEN [avatar |-> user.avatar] ELSE NoKeys)

\* The paths Mongoose marks modified: assigned a value that differs from the one read
ModifiedUserPaths(old, new) ==
    {f \in UserFields \cap DOMAIN new : ~Has(old, f) \/ new[f] # old[f]}

\* updateOne({_id}, {$set: the modified paths}) on the stored document
ApplyUserSet(stored, doc, paths) ==
    [f \in DOMAIN stored \cup paths |-> IF f \in paths THEN doc[f] ELSE stored[f]]

\* The whole document is sent, password hash included.
WholeUser(user) == user

\* The object PUT /profile answers with, as res.json serialises it: a key whose
\* value is undefined is left out.
SafeSubset(user) ==
    [f \in {"_id", "name", "email", "bio", "phone", "avatar"} \cap DOMAIN user |-> user[f]]

\* Request bodies of PUT /api/users/profile
ProfileBodies ==
    { [email |-> "c@x.com", bio |-> <<"x", " ">>, phone |-> <<>>, avatar |-> "pic"],
      [email |-> "A@x.com", password |-> "secret3"],
      [name |-> <<" ">>, email |-> "nope"] }

\* validation, findById, the 404 check; suspends at findOne when the email
\* changes, else at save() (the assignments are local and computed there)
ProfileRead(s, u, body) ==
    /\ inflight[s] = Idle
    /\ resp = NoResp
    /\ LET errors == ProfileErrors(body)
           found == FindUserById(users, u)
           user == CHOOSE x \in found : TRUE
       IN IF errors # {}
          THEN /\ resp' = [op |-> "putProfile", caller |-> u, req |-> body,
                           status |-> 400, body |-> [errors |-> errors]]
               /\ UNCHANGED inflight
          ELSE IF found = {}
          THEN /\ resp' = [op |-> "putProfile", caller |-> u, req |-> body,
                           status |-> 404, body |-> [message |-> "User not found"]]
               /\ UNCHANGED inflight
          ELSE IF Has(body, "email") /\ body.email # "" /\ body.email # user.email
          THEN /\ inflight' = [inflight EXCEPT ![s] =
                                  [op |-> "putProfile", pc |-> "findOne", caller |-> u,
                                   req |-> body, user |-> user]]
               /\ UNCHANGED resp
          ELSE /\ inflight' = [inflight EXCEPT ![s] =
                                  [op |-> "putProfile", pc |-> "save", caller |-> u,
                                   req |-> body, user |-> user]]
               /\ UNCHANGED resp
    /\ UNCHANGED <<db, nextId, users, ui>>

\* findOne({ email }): 400 when some user has the email, else the assignments;
\* suspends at save()
ProfileCheckEmail(s) ==
    /\ inflight[s].op = "putProfile"
    /\ inflight[s].pc = "findOne"
    /\ resp = NoResp
    /\ LET r == inflight[s]
       IN IF FindUserByEmail(users, r.req.email) # {}
          THEN /\ resp' = [op |-> "putProfile", caller |-> r.caller, req |-> r.req,
                           status |-> 400, body |-> [message |-> "Email already in use"]]
               /\ inflight' = [inflight EXCEPT ![s] = Idle]
          ELSE /\ inflight' = [inflight EXCEPT ![s] = [r EXCEPT !.pc = "save"]]
               /\ UNCHANGED resp
    /\ UNCHANGED <<db, nextId, users, ui>>

\* user.save(): $set of the modified paths, rejected by the unique index when
\* the email is another user's; then the response
ProfileSave(s) ==
    /\ inflight[s].op = "putProfile"
    /\ inflight[s].pc = "save"
    /\ resp = NoResp
    /\ LET r == inflight[s]
           doc == AssignProfile(r.user, r.req)
           stored == FindUserById(users, r.caller)
           written == ApplyUserSet(CHOOSE x \in stored : TRUE, doc,
                                   ModifiedUserPaths(r.user, doc))
       IN IF stored = {} \/ DuplicateKey(users, written)
          THEN /\ resp' = [op |-> "putProfile", caller |-> r.caller, req |-> r.req,
                           status |-> 500, body |-> [message |-> "Server error"]]
               /\ UNCHANGED users
          ELSE /\ users' = (users \ stored) \cup {written}
               /\ resp' = [op |-> "putProfile", caller |-> r.caller, req |-> r.req,
                           status |-> 200, body |-> SafeSubset(doc)]
    /\ inflight' = [inflight EXCEPT ![s] = Idle]
    /\ UNCHANGED <<db, nextId, ui>>

\* ======================================================================
\* The browser: pages/Expenses.jsx, components/ExpenseModal.jsx and
\* pages/Dashboard.jsx.  A handler runs up to its await in one step and from
\* the response to its end in another; React renders and runs the effects of
\* a state change before the next event, so the applyFilters effect is part of
\* every step that changes `expenses` or `filters`.  The server serves a
\* browser request in the step in which its response arrives.

\* The user logged in at the browser
Me == "u1"

\* null, as the value of editingExpense / the expense prop
NoExpense == [_id |-> 0]

\* new Date(x).toISOString().split('T')[0]
FormatDate(t) ==
    CASE t = Instant(2024, 1, 15) -> "2024-01-15"
      [] t = Instant(2024, 3, 10) -> "2024-03-10"
      [] t = Instant(2024, 8, 20) -> "2024-08-20"

\* The text a number input shows for a stored amount
FormatNumber(n) ==
    CASE n = 0 -> "0"
      [] n = 1 -> "1"
      [] n = 2 -> "2"

\* The useState initializer of ExpenseModal's formData (x || default)
InitialFormData(expense, today) ==
    [amount |-> IF expense = NoExpense \/ expense.amount = 0
                THEN "" ELSE FormatNumber(expense.amount),
     category |-> IF expense = NoExpense THEN "Food & Dining" ELSE expense.category,
     description |-> IF expense = NoExpense THEN <<>> ELSE expense.description,
     date |-> IF expense = NoExpense THEN FormatDate(today) ELSE FormatDate(expense.date),
     paymentMethod |-> IF expense = NoExpense THEN "Cash" ELSE expense.paymentMethod]

BlankFilters == [search |-> <<>>, category |-> "", startDate |-> "", endDate |-> ""]

\* The Expenses component before it is mounted: the useState initial values
InitialPage ==
    [mounted |-> FALSE,
     expenses |-> <<>>,
     filteredExpenses |-> <<>>,
     loading |-> TRUE,
     isModalOpen |-> FALSE,
     editingExpense |-> NoExpense,
     filters |-> BlankFilters]

LowerSeq(s) == [i \in 1..Len(s) |-> ToLower(s[i])]

\* text.toLowerCase().includes(s.toLowerCase())
Includes(text, s) ==
    \E i \in 1..(Len(text) - Len(s) + 1) :
        SubSeq(LowerSeq(text), i, i + Len(s) - 1) = LowerSeq(s)

\* The endDate filter is not applied.
ApplyFiltersNoEnd(expenses, filters) ==
    LET bySearch(e) == filters.search = <<>> \/ Includes(e.description, filters.search)
        byCategory(e) == filters.category = "" \/ e.category = filters.category
        byStart(e) == filters.startDate = "" \/ e.date >= ParseDate(filters.startDate)
    IN SelectSeq(SelectSeq(SelectSeq(expenses, bySearch), byCategory), byStart)

\* applyFilters: four filter() passes, each skipped when its filter is empty
ApplyFilters(expenses, filters) ==
    LET bySearch(e) == filters.search = <<>> \/ Includes(e.description, filters.search)
        byCategory(e) == filters.category = "" \/ e.category = filters.category
        byStart(e) == filters.startDate = "" \/ e.date >= ParseDate(filters.startDate)
        byEnd(e) == filters.endDate = "" \/ e.date <= ParseDate(filters.endDate)
    IN SelectSeq(SelectSeq(SelectSeq(SelectSeq(expenses, bySearch), byCategory),
                           byStart), byEnd)

\* useEffect(() => applyFilters(), [expenses, filters]) after a render
WithFilters(pg) == [pg EXCEPT !.filteredExpenses = ApplyFilters(pg.expenses, pg.filters)]

\* setLoading(false) only after a successful fetch.
LoadingAfterFetchOnSuccess(ok) == ~ok

\* finally { setLoading(false) }: the value of loading after the fetch settled
LoadingAfterFetch(ok) == FALSE

\* ---------------------------------------- the server, one request at a time
\* GET /expenses without filters: the response bodies the server may send
ServedList(coll, u) == SortByDateDesc(Find(coll, BuildQuery(u, NoKeys)))

\* POST /expenses
ServedCreate(coll, u, body, id, now) ==
    IF CreateErrors(body) # {} THEN [status |-> 400]
    ELSE IF SchemaErrors(NewExpense(u, body, id, now)) # {} THEN [status |-> 500]
    ELSE [status |-> 201, data |-> NewExpense(u, body, id, now)]

\* PUT /expenses/:id, read and save together
ServedUpdate(coll, u, id, body) ==
    IF UpdateErrors(body) # {} THEN [status |-> 400]
    ELSE IF AccessStatus(coll, u, id) # 200 THEN [status |-> AccessStatus(coll, u, id)]
    ELSE LET old == CHOOSE d \in FindById(coll, id) : TRUE
             doc == AssignFields(old, body)
         IN IF SchemaErrors(doc) # {} THEN [status |-> 500]
            ELSE [status |-> 200, data |-> ApplySet(old, doc, ModifiedPaths(old, doc))]

\* GET /expenses/stats, the three aggregates together
ServedStats(coll, u, now) ==
    {[totalExpenses |-> TotalOrZero(AggregateTotal(coll, u)),
      byCategory |-> byCategory,
      monthlyExpenses |-> monthly] :
        byCategory \in SortByTotalDesc(GroupByCategory(MatchUser(coll, u))),
        monthly \in SortByMonthAsc(GroupByMonth(
                        {d \in MatchUser(coll, u) : d.date >= SixMonthsBefore(now)}))}

\* ------------------------------------------------------------ Expenses page
ToastLoadFailed == "Failed to load expenses"
ToastAdded == "Expense added successfully!"
ToastAddFailed == "Failed to add expense"
ToastUpdated == "Expense updated successfully!"
ToastUpdateFailed == "Failed to update expense"
ToastDeleted == "Expense deleted successfully!"
ToastDeleteFailed == "Failed to delete expense"
ToastRequired == "Please fill in all required fields"
ToastAmount == "Amount must be greater than 0"
ToastDashboardFailed == "Failed to load dashboard data"

\* The toasts that report a failed request
ErrorToasts == {ToastLoadFailed, ToastAddFailed, ToastUpdateFailed, ToastDeleteFailed,
                ToastDashboardFailed}

NoToasts == [last |-> "", failed |-> FALSE]

\* toast.success(msg) / toast.error(msg)
Toast(msg) == [last |-> msg, failed |-> toasts.failed \/ msg \in ErrorToasts]

\* Requests of the Expenses page in flight at once
MaxPending == 2

\* The page is mounted: the mount effect calls fetchExpenses, which awaits GET /expenses.
MountExpenses ==
    /\ ~page.mounted
    /\ page' = [InitialPage EXCEPT !.mounted = TRUE]
    /\ pending' = pending \cup {[kind |-> "fetch"]}
    /\ UNCHANGED <<db, nextId, inflight, resp, users, modal, dashboard, toasts>>

\* fetchExpenses after the await: setExpenses(data) or the error toast, then
\* setLoading(false); the applyFilters effect follows.
FetchExpensesSettle(ok) ==
    /\ [kind |-> "fetch"] \in pending
    /\ pending' = pending \ {[kind |-> "fetch"]}
    /\ IF ok
       THEN /\ \E data \in ServedList(db, Me) :
                  page' = WithFilters([page EXCEPT !.expenses = data,
                                                   !.loading = LoadingAfterFetch(ok)])
            /\ UNCHANGED toasts
       ELSE /\ page' = [page EXCEPT !.loading = LoadingAfterFetch(ok)]
            /\ toasts' = Toast(ToastLoadFailed)
    /\ UNCHANGED <<db, nextId, inflight, resp, users, modal, dashboard>>

\* The page's controls can be used: it is rendered and the modal's overlay
\* does not cover it.
PageUsable == page.mounted /\ ~page.loading /\ ~page.isModalOpen

\* Values the user gives the filter inputs
FilterValues(name) ==
    CASE name = "search" -> {<<>>, <<"A">>}
      [] name = "category" -> {"", "Travel"}
      [] name = "startDate" -> {"", "2024-03-10"}
      [] name = "endDate" -> {"", "2024-03-10"}

\* handleFilterChange, then the applyFilters effect
HandleFilterChange(name, value) ==
    /\ PageUsable
    /\ page' = WithFilters([page EXCEPT !.filters[name] = value])
    /\ UNCHANGED <<db, nextId, inflight, resp, users, modal, dashboard, pending, toasts>>

\* clearFilters (the button is rendered when some filter is set), then the effect
ClearFilters ==
    /\ PageUsable
    /\ page.filters # BlankFilters
    /\ page' = WithFilters([page EXCEPT !.filters = BlankFilters])
    /\ UNCHANGED <<db, nextId, inflight, resp, users, modal, dashboard, pending, toasts>>

\* ----------------------------------------------------------- ExpenseModal
\* The '+ Add Expense' buttons: setIsModalOpen(true)
OpenAdd ==
    /\ PageUsable
    /\ page' = [page EXCEPT !.isModalOpen = TRUE]
    /\ UNCHANGED <<db, nextId, inflight, resp, users, modal, dashboard, pending, toasts>>

\* The edit button of a listed expense: setEditingExpense(expense); setIsModalOpen(true).
\* The modal component is already mounted, so its useState initializer does not run again.
OpenEdit(i) ==
    /\ PageUsable
    /\ i \in 1..Len(page.filteredExpenses)
    /\ page' = [page EXCEPT !.editingExpense = page.filteredExpenses[i],
                            !.isModalOpen = TRUE]
    /\ UNCHANGED <<db, nextId, inflight, resp, users, modal, dashboard, pending, toasts>>

\* The page's onClose prop: setIsModalOpen(false); setEditingExpense(null)
OnClose(pg) == [pg EXCEPT !.isModalOpen = FALSE, !.editingExpense = NoExpense]

\* The modal's X and Cancel buttons (not disabled while a save is awaited)
CloseModal ==
    /\ page.mounted
    /\ page.isModalOpen
    /\ page' = OnClose(page)
    /\ UNCHANGED <<db, nextId, inflight, resp, users, modal, dashboard, pending, toasts>>

\* Texts the user types into the amount and description inputs
AmountInputs == {"", "0", "-1", "1"}

DescriptionInputs == {<<>>, <<"c">>}

\* handleChange of an input of the form
HandleChange(name, value) ==
    /\ page.mounted
    /\ page.isModalOpen
    /\ modal' = [modal EXCEPT !.formData[name] = value]
    /\ UNCHANGED <<db, nextId, inflight, resp, users, page, dashboard, pending, toasts>>

\* Only the empty-field test is made.
SubmitErrorNoAmountTest(formData) ==
    IF formData.amount = "" \/ formData.description = <<>> THEN ToastRequired
    ELSE ""

\* The two tests handleSubmit makes before onSave: the toast it shows, "" for none
SubmitError(formData) ==
    IF formData.amount = "" \/ formData.description = <<>> THEN ToastRequired
    ELSE IF ToNumber(formData.amount) <= 0 THEN ToastAmount
    ELSE ""

\* The request onSave sends: handleEditExpense when an expense is being
\* edited, else handleAddExpense; each closes over the page's `expenses` (and
\* editingExpense) of the render the submit came from.
SaveRequest(pg, formData) ==
    IF pg.editingExpense # NoExpense
    THEN [kind |-> "edit", id |-> pg.editingExpense._id, body |-> formData,
          expenses |-> pg.expenses]
    ELSE [kind |-> "add", body |-> formData, expenses |-> pg.expenses]

\* handleSubmit up to `await onSave(formData)`; the submit button is disabled
\* while loading.
HandleSubmit ==
    /\ page.mounted
    /\ page.isModalOpen
    /\ ~modal.loading
    /\ IF SubmitError(modal.formData) # ""
       THEN /\ toasts' = Toast(SubmitError(modal.formData))
            /\ UNCHANGED <<modal, pending>>
       ELSE /\ modal' = [modal EXCEPT !.loading = TRUE]
            /\ pending' = pending \cup {SaveRequest(page, modal.formData)}
            /\ UNCHANGED toasts
    /\ UNCHANGED <<db, nextId, inflight, resp, users, page, dashboard>>

\* onClose() is called whether onSave resolved or rejected.
AfterSaveAlwaysClosing(pg, saved) == OnClose(pg)

\* try { await onSave(formData); onClose() } catch {}: the page after the save
AfterSave(pg, saved) == IF saved THEN OnClose(pg) ELSE pg

\* handleAddExpense after `await api.post`, then the rest of handleSubmit:
\* setExpenses([data, ...expenses]) with the `expenses` it closed over, the toast,
\* onClose, and setLoading(false) in the finally.
HandleAddExpenseSettle(r, ok, now) ==
    /\ r \in pending
    /\ r.kind = "add"
    /\ ok => nextId < MaxExpenses
    /\ LET res == ServedCreate(db, Me, r.body, nextId + 1, now)
           saved == ok /\ res.status = 201
       IN IF saved
          THEN /\ db' = db \cup {res.data}
               /\ nextId' = nextId + 1
               /\ page' = WithFilters(AfterSave(
                              [page EXCEPT !.expenses = <<res.data>> \o r.expenses], saved))
               /\ toasts' = Toast(ToastAdded)
          ELSE /\ page' = AfterSave(page, saved)
               /\ toasts' = Toast(ToastAddFailed)
               /\ UNCHANGED <<db, nextId>>
    /\ modal' = [modal EXCEPT !.loading = FALSE]
    /\ pending' = pending \ {r}
    /\ UNCHANGED <<inflight, resp, users, dashboard>>

\* expenses.map((exp) => (exp._id === data._id ? data : exp))
ReplaceById(expenses, data) ==
    [i \in 1..Len(expenses) |-> IF expenses[i]._id = data._id THEN data ELSE expenses[i]]

\* handleEditExpense after `await api.put`, then the rest of handleSubmit
HandleEditExpenseSettle(r, ok) ==
    /\ r \in pending
    /\ r.kind = "edit"
    /\ LET res == ServedUpdate(db, Me, r.id, r.body)
           saved == ok /\ res.status = 200
       IN IF saved
          THEN /\ db' = (db \ FindById(db, r.id)) \cup {res.data}
               /\ page' = WithFilters(AfterSave(
                              [page EXCEPT !.expenses = ReplaceById(r.expenses, res.data),
                                           !.editingExpense = NoExpense], saved))
               /\ toasts' = Toast(ToastUpdated)
          ELSE /\ page' = AfterSave(page, saved)
               /\ toasts' = Toast(ToastUpdateFailed)
               /\ UNCHANGED db
    /\ modal' = [modal EXCEPT !.loading = FALSE]
    /\ pending' = pending \ {r}
    /\ UNCHANGED <<nextId, inflight, resp, users, dashboard>>

\* handleDeleteExpense up to `await api.delete`, the confirm dialog accepted:
\* the continuation closes over the `expenses` of the render the click came from.
HandleDeleteExpense(i) ==
    /\ PageUsable
    /\ i \in 1..Len(page.filteredExpenses)
    /\ Cardinality(pending) < MaxPending
    /\ pending' = pending \cup {[kind |-> "delete", id |-> page.filteredExpenses[i]._id,
                                 expenses |-> page.expenses]}
    /\ UNCHANGED <<db, nextId, inflight, resp, users, page, modal, dashboard, toasts>>

\* expenses.filter((exp) => exp._id !== id)
WithoutId(expenses, id) == LET keep(e) == e._id # id IN SelectSeq(expenses, keep)

\* handleDeleteExpense after the await: setExpenses(expenses.filter(...)) with
\* the `expenses` it closed over, or the error toast
HandleDeleteExpenseSettle(r, ok) ==
    /\ r \in pending
    /\ r.kind = "delete"
    /\ IF ok /\ AccessStatus(db, Me, r.id) = 200
       THEN /\ db' = RemoveById(db, r.id)
            /\ page' = WithFilters([page EXCEPT !.expenses = WithoutId(r.expenses, r.id)])
            /\ toasts' = Toast(ToastDeleted)
       ELSE /\ toasts' = Toast(ToastDeleteFailed)
            /\ UNCHANGED <<db, page>>
    /\ pending' = pending \ {r}
    /\ UNCHANGED <<nextId, inflight, resp, users, modal, dashboard>>

\* ---------------------------------------------------------------- Dashboard
\* null, as the value of stats
NoStats == [none |-> TRUE]

\* States of the two promises Promise.all waits for
NotSent == [state |-> "not sent"]

Awaited == [state |-> "pending"]

Rejected == [state |-> "rejected"]

Fulfilled(data) == [state |-> "fulfilled", data |-> data]

\* expensesRes.data.slice(0, 5)
RecentLimit == 5

\* The whole list is kept.
SliceAll(list, n) == list

\* list.slice(0, n)
Slice(list, n) == SubSeq(list, 1, IF Len(list) < n THEN Len(list) ELSE n)

\* The Dashboard component before it is mounted: the useState initial values
InitialDashboard ==
    [mounted |-> FALSE,
     stats |-> NoStats,
     recentExpenses |-> <<>>,
     loading |-> TRUE,
     statsRes |-> NotSent,
     expensesRes |-> NotSent,
     settled |-> FALSE]

\* The page is mounted: fetchDashboardData sends both requests and awaits Promise.all.
MountDashboard ==
    /\ ~dashboard.mounted
    /\ dashboard' = [InitialDashboard EXCEPT !.mounted = TRUE,
                                             !.statsRes = Awaited,
                                             !.expensesRes = Awaited]
    /\ UNCHANGED <<db, nextId, inflight, resp, users, page, modal, pending, toasts>>

\* fetchDashboardData after `await Promise.all`: it resumes at the first
\* rejection (catch) or when both are fulfilled (the two setters), once.
AfterPromiseAll(d) ==
    IF d.settled THEN d
    ELSE IF (d.statsRes = Rejected \/ d.expensesRes = Rejected)
    THEN [d EXCEPT !.settled = TRUE, !.loading = LoadingAfterFetch(FALSE)]
    ELSE IF d.statsRes.state = "fulfilled" /\ d.expensesRes.state = "fulfilled"
    THEN [d EXCEPT !.settled = TRUE,
                   !.stats = d.statsRes.data,
                   !.recentExpenses = Slice(d.expensesRes.data, RecentLimit),
                   !.loading = LoadingAfterFetch(TRUE)]
    ELSE d

\* The toast of the catch, shown when Promise.all rejects
DashboardToast(before, after) ==
    IF ~before.settled /\ after.settled
       /\ (after.statsRes = Rejected \/ after.expensesRes = Rejected)
    THEN Toast(ToastDashboardFailed) ELSE toasts

\* The response to GET /expenses/stats arrives, or the request fails.
DashboardStatsArrive(ok, now) ==
    /\ dashboard.statsRes = Awaited
    /\ IF ok
       THEN \E data \in ServedStats(db, Me, now) :
                /\ dashboard' = AfterPromiseAll([dashboard EXCEPT !.statsRes = Fulfilled(data)])
                /\ toasts' = DashboardToast(dashboard, dashboard')
       ELSE /\ dashboard' = AfterPromiseAll([dashboard EXCEPT !.statsRes = Rejected])
            /\ toasts' = DashboardToast(dashboard, dashboard')
    /\ UNCHANGED <<db, nextId, inflight, resp, users, page, modal, pending>>

\* The response to GET /expenses?limit=5 arrives (the server ignores limit), or
\* the request fails.
DashboardExpensesArrive(ok) ==
    /\ dashboard.expensesRes = Awaited
    /\ IF ok
       THEN \E data \in ServedList(db, Me) :
                /\ dashboard' = AfterPromiseAll([dashboard EXCEPT
                                                   !.expensesRes = Fulfilled(data)])
                /\ toasts' = DashboardToast(dashboard, dashboard')
       ELSE /\ dashboard' = AfterPromiseAll([dashboard EXCEPT !.expensesRes = Rejected])
            /\ toasts' = DashboardToast(dashboard, dashboard')
    /\ UNCHANGED <<db, nextId, inflight, resp, users, page, modal, pending>>

\* The client takes the response.
Ack ==
    /\ resp # NoResp
    /\ resp' = NoResp
    /\ UNCHANGED <<db, nextId, inflight, users, ui>>

Quiescent == \A s \in Slots : inflight[s] = Idle

\* Slots are anonymous: a request that suspends takes the lowest free one.
FreeSlot(s) == inflight[s] = Idle /\ \A r \in Slots : r < s => inflight[r] # Idle

Init ==
    /\ db = {}
    /\ nextId = 0
    /\ inflight = [s \in Slots |-> Idle]
    /\ resp = NoResp
    /\ users = {}
    /\ page = InitialPage
    /\ \E now \in Nows : modal = [formData |-> InitialFormData(NoExpense, now),
                                  loading |-> FALSE]
    /\ dashboard = InitialDashboard
    /\ pending = {}
    /\ toasts = NoToasts

\* Requests are served one at a time: a handler starts when none is suspended
\* and the last response has been taken.
Ready == resp = NoResp /\ Quiescent

Next ==
    \/ Ack
    \/ Ready /\ \E route \in Routes, tok \in Tokens : RejectUnauthenticated(route, tok)
    \/ Ready /\ \E u \in Authenticated, body \in CreateBodies, now \in Nows :
                    CreateExpense(u, body, now)
    \/ Ready /\ \E u \in Authenticated, id \in IdParams : GetExpense(u, id)
    \/ Ready /\ \E s \in Slots, u \in Authenticated, id \in IdParams, body \in UpdateBodies :
                    FreeSlot(s) /\ UpdateExpenseRead(s, u, id, body)
    \/ \E s \in Slots : UpdateExpenseSave(s)
    \/ Ready /\ \E s \in Slots, u \in Authenticated, id \in IdParams :
                    FreeSlot(s) /\ DeleteExpenseRead(s, u, id)
    \/ \E s \in Slots : DeleteExpenseRemove(s)
    \/ Ready /\ \E u \in Authenticated, q \in ListQueries : ListExpenses(u, q)
    \/ Ready /\ \E s \in Slots, u \in Authenticated : FreeSlot(s) /\ StatsTotal(s, u)
    \/ \E s \in Slots : StatsByCategory(s)
    \/ \E s \in Slots, now \in Nows : StatsMonthly(s, now)

Spec == Init /\ [][Next]_vars

\* The users protect resolves: a verified token whose user record exists
Resolved == {u \in Authenticated : FindUserById(users, u) # {}}

\* Registration and the profile routes, requests overlapping freely: a handler
\* may start while others are suspended at an await.
NextUsers ==
    \/ Ack
    \/ resp = NoResp /\ \E body \in RegisterBodies : Register(body)
    \/ resp = NoResp /\ \E u \in Resolved : GetProfile(u)
    \/ resp = NoResp /\ \E s \in Slots, u \in Resolved, body \in ProfileBodies :
                            FreeSlot(s) /\ ProfileRead(s, u, body)
    \/ \E s \in Slots : ProfileCheckEmail(s)
    \/ \E s \in Slots : ProfileSave(s)

SpecUsers == Init /\ [][NextUsers]_vars

\* Request bodies of the overlapping PUT /expenses/:id requests: one changes
\* the amount only, one the other four fields, one gives a category outside
\* the schema's enum.
RaceBodies ==
    { [amount |-> "0", userId |-> "u2"],
      [category |-> "Travel", description |-> <<" ", "b">>, date |-> "2024-03-10",
       paymentMethod |-> "UPI"],
      [category |-> "Groceries"] }

\* The overlapping requests are one user's, the owner of the expenses.
RaceUsers == {u \in Authenticated : u = "u1"}

\* Expenses created while requests overlap
MaxRaceExpenses == 1

\* The expense routes with requests overlapping freely: a PUT or DELETE may
\* start, and a suspended one may resume, while others wait at their await.
NextRace ==
    \/ Ack
    \/ resp = NoResp /\ nextId < MaxRaceExpenses
                     /\ \E u \in RaceUsers, now \in Nows :
                            CreateExpense(u, ValidCreate, now)
    \/ resp = NoResp /\ \E s \in Slots, u \in RaceUsers, id \in 1..MaxRaceExpenses,
                           body \in RaceBodies :
                            FreeSlot(s) /\ UpdateExpenseRead(s, u, id, body)
    \/ \E s \in Slots : UpdateExpenseSave(s)
    \/ resp = NoResp /\ \E s \in Slots, u \in RaceUsers, id \in 1..MaxRaceExpenses :
                            FreeSlot(s) /\ DeleteExpenseRead(s, u, id)
    \/ \E s \in Slots : DeleteExpenseRemove(s)

SpecRace == Init /\ [][NextRace]_vars

\* ------------------------------------------------ the browser's specifications
TravelCreate == [amount |-> "1", category |-> "Travel", description |-> <<"b">>,
                 paymentMethod |-> "UPI"]

\* The expenses the user has before the page is opened: k earlier creates,
\* the valid bodies in turn, on three dates.
Seed(k, now) ==
    {NewExpense(Me, CASE i % 3 = 1 -> ValidCreate
                      [] i % 3 = 2 -> TravelCreate
                      [] i % 3 = 0 -> TravelCreate @@ [date |-> "2024-03-10"],
                i, now) : i \in 1..k}

\* The state when the browser opens the application with at most n expenses stored
InitBrowser(n) ==
    /\ \E k \in 0..n, now \in Nows : db = Seed(k, now) /\ nextId = k
    /\ inflight = [s \in Slots |-> Idle]
    /\ resp = NoResp
    /\ users = {}
    /\ page = InitialPage
    /\ \E now \in Nows : modal = [formData |-> InitialFormData(NoExpense, now),
                                  loading |-> FALSE]
    /\ dashboard = InitialDashboard
    /\ pending = {}
    /\ toasts = NoToasts

InitPage == InitBrowser(MaxExpenses)

\* The Expenses page, its list and its filters: the user's actions and the
\* responses in any order.
NextPage ==
    \/ MountExpenses
    \/ \E ok \in BOOLEAN : FetchExpensesSettle(ok)
    \/ \E name \in DOMAIN BlankFilters : \E value \in FilterValues(name) :
           HandleFilterChange(name, value)
    \/ ClearFilters
    \/ \E i \in 1..MaxExpenses : HandleDeleteExpense(i)
    \/ \E r \in pending, ok \in BOOLEAN : HandleDeleteExpenseSettle(r, ok)

SpecPage == InitPage /\ [][NextPage]_vars

\* The Expenses page and its modal: adding and editing.
NextModal ==
    \/ MountExpenses
    \/ \E ok \in BOOLEAN : FetchExpensesSettle(ok)
    \/ OpenAdd
    \/ \E i \in 1..MaxExpenses : OpenEdit(i)
    \/ CloseModal
    \/ \E value \in AmountInputs : HandleChange("amount", value)
    \/ \E value \in DescriptionInputs : HandleChange("description", value)
    \/ HandleSubmit
    \/ \E r \in pending, ok \in BOOLEAN, now \in Nows : HandleAddExpenseSettle(r, ok, now)
    \/ \E r \in pending, ok \in BOOLEAN : HandleEditExpenseSettle(r, ok)

SpecModal == InitPage /\ [][NextModal]_vars

InitLoad == InitBrowser(RecentLimit + 1)

\* The mount-time loading of the two pages
NextLoad ==
    \/ MountExpenses
    \/ \E ok \in BOOLEAN : FetchExpensesSettle(ok)
    \/ MountDashboard
    \/ \E ok \in BOOLEAN, now \in Nows : DashboardStatsArrive(ok, now)
    \/ \E ok \in BOOLEAN : DashboardExpensesArrive(ok)

\* Every request the browser sent settles: a response arrives or the request fails.
SpecLoad ==
    /\ InitLoad
    /\ [][NextLoad]_vars
    /\ WF_vars(\E ok \in BOOLEAN : FetchExpensesSettle(ok))
    /\ WF_vars(\E ok \in BOOLEAN, now \in Nows : DashboardStatsArrive(ok, now))
    /\ WF_vars(\E ok \in BOOLEAN : DashboardExpensesArrive(ok))

\* ------------------------------------------------------------ Dashboard.jsx
\* The 'This Month' card:
\* stats?.monthlyExpenses?.[stats.monthlyExpenses.length - 1]?.count || 0
ThisMonthCard(stats) ==
    IF stats.monthlyExpenses = <<>> THEN 0
    ELSE stats.monthlyExpenses[Len(stats.monthlyExpenses)].count

\* -------------------------------------------------------- other specifications
\* GET /stats overlapping the same user's creates and deletes: the handler's
\* three aggregates are separate awaits, and other requests are served between
\* them.
NextStats ==
    \/ Ack
    \/ resp = NoResp /\ \E u \in RaceUsers, now \in Nows :
                            CreateExpense(u, ValidCreate, now)
    \/ resp = NoResp /\ \E s \in Slots, u \in RaceUsers, id \in 1..MaxExpenses :
                            FreeSlot(s) /\ DeleteExpenseRead(s, u, id)
    \/ \E s \in Slots : DeleteExpenseRemove(s)
    \/ resp = NoResp /\ \E s \in Slots, u \in RaceUsers : FreeSlot(s) /\ StatsTotal(s, u)
    \/ \E s \in Slots : StatsByCategory(s)
    \/ \E s \in Slots, now \in Nows : StatsMonthly(s, now)

SpecStats == Init /\ [][NextStats]_vars

\* ======================================================================
\* Properties
\* ======================================================================
ByIdOps == {"get", "put", "delete"}

\* The step writes a response.
Responds == resp = NoResp /\ resp' # NoResp

\* The response carries expense data (a document or a list of them).
CarriesExpense(body) == Has(body, "userId") \/ Has(body, "items")

\* r answers a by-id request of a user who does not own the stored expense.
ForeignTarget(r, coll) ==
    /\ r.op \in ByIdOps
    /\ \E d \in coll : d._id = r.id /\ d.userId # r.caller

\* C1, as stated: every GET, PUT or DELETE /api/expenses/:id by a user who does
\* not own the expense returns 401, returns none of the owner's data and leaves
\* the collection unchanged.
C1_Original ==
    [][(Responds /\ ForeignTarget(resp', db)) =>
          /\ resp'.status = 401
          /\ ~CarriesExpense(resp'.body)
          /\ db' = db]_vars

\* C1, amended: such a request returns 401 'Not authorized' - or 400 with the
\* validation errors when it is a PUT whose body fails validation, which is
\* checked before the expense is read - and in both cases returns none of the
\* owner's data and leaves the collection unchanged.
C1_ForeignAccessRejected ==
    [][(Responds /\ ForeignTarget(resp', db)) =>
          /\ IF resp'.op = "put" /\ UpdateErrors(resp'.req) # {}
             THEN resp'.status = 400 /\ DOMAIN resp'.body = {"errors"}
             ELSE resp'.status = 401 /\ resp'.body = [message |-> "Not authorized"]
          /\ ~CarriesExpense(resp'.body)
          /\ db' = db]_vars

\* A well-formed PUT on another user's expense was answered 401.
C1_Witness ==
    /\ resp.op = "put"
    /\ resp.status = 401
    /\ UpdateErrors(resp.req) = {}
    /\ \E d \in db : d._id = resp.id /\ d.userId # resp.caller /\ d.amount # 0

\* C2: an expense created by POST /api/expenses is stored and returned with
\* userId equal to the caller's id, whatever userId the body carries.
C2_CreatedForCaller ==
    (resp.op = "create" /\ resp.status = 201) =>
        /\ resp.body.userId = resp.caller
        /\ resp.body \in db
        /\ \A d \in db : d._id = resp.body._id => d.userId = resp.caller

\* A create whose body named another user succeeded.
C2_Witness ==
    /\ resp.op = "create"
    /\ resp.status = 201
    /\ Has(resp.req, "userId")
    /\ resp.req.userId # resp.caller

\* The query string carries no filter (absent or empty parameters only).
NoFilters(q) ==
    /\ Has(q, "search") => q.search = <<>>
    /\ \A k \in {"category", "startDate", "endDate", "minAmount", "maxAmount"} :
           Has(q, k) => q[k] = ""

ItemSet(items) == {items[i] : i \in 1..Len(items)}

\* C3: GET /api/expenses returns only expenses of the caller, whatever the
\* query string, and without filters returns each of the caller's expenses
\* once.
C3_ListScopedToCaller ==
    resp.op = "list" =>
        /\ \A i \in 1..Len(resp.body.items) : resp.body.items[i].userId = resp.caller
        /\ ItemSet(resp.body.items) \subseteq db
        /\ NoFilters(resp.req) =>
              /\ ItemSet(resp.body.items) = {d \in db : d.userId = resp.caller}
              /\ Len(resp.body.items) = Cardinality({d \in db : d.userId = resp.caller})

\* A list asked with another user's id in the query string returned the
\* caller's expenses while the other user has some too.
C3_Witness ==
    /\ resp.op = "list"
    /\ Has(resp.req, "userId")
    /\ resp.req.userId # resp.caller
    /\ Len(resp.body.items) >= 1
    /\ \E d \in db : d.userId # resp.caller

\* C4: a successful PUT leaves every one of amount, category, description,
\* date and paymentMethod that the body omits with the value stored before.
C4_OmittedFieldsKept ==
    [][(Responds /\ resp'.op = "put" /\ resp'.status = 200) =>
          \E old \in db : \E new \in db' :
              /\ old._id = resp'.id
              /\ new._id = resp'.id
              /\ \A f \in Fields \ DOMAIN resp'.req : new[f] = old[f]
              /\ db' \ {new} = db \ {old}]_vars

\* An amount-only update changed the amount of an expense whose other fields
\* are not the defaults.
C4_Witness ==
    /\ resp.op = "put"
    /\ resp.status = 200
    /\ DOMAIN resp.req \cap Fields = {"amount"}
    /\ \E d \in db : /\ d._id = resp.id
                     /\ d.amount = 0
                     /\ d.category = "Food & Dining"
                     /\ d.paymentMethod = "Cash"

RECURSIVE SumItems(_)
SumItems(items) == IF items = <<>> THEN 0 ELSE Head(items).amount + SumItems(Tail(items))

\* C5: with requests served one at a time, the totalExpenses of a stats
\* response equals the sum of amount over what an unfiltered GET /api/expenses
\* of the same user returns in that state.
C5_TotalEqualsListSum ==
    resp.op = "stats" =>
        \A items \in SortByDateDesc(Find(db, BuildQuery(resp.caller, [limit |-> "5"]))) :
            resp.body.totalExpenses = SumItems(items)

\* A stats response with a positive total while another user also has an
\* expense with a positive amount.
C5_Witness ==
    /\ resp.op = "stats"
    /\ resp.body.totalExpenses > 0
    /\ \E d \in db : d.userId # resp.caller /\ d.amount > 0

\* C6, as stated: GET, PUT and DELETE by an id that matches no stored expense
\* return 404 'Expense not found' and change nothing; 401 is answered only
\* when the expense exists.
C6_Original ==
    [][(Responds /\ resp'.op \in ByIdOps) =>
          /\ FindById(db, resp'.id) = {} =>
                /\ resp'.status = 404
                /\ resp'.body = [message |-> "Expense not found"]
                /\ db' = db
          /\ resp'.status = 401 => FindById(db, resp'.id) # {}]_vars

\* C6, as the handlers behave: for an id that matches no stored expense
\* nothing is changed, and the answer is 400 for a PUT whose body fails
\* validation (checked before the lookup), otherwise 500 'Server error' when the id is not a
\* well-formed ObjectId (findById rejects with a CastError), otherwise 404
\* 'Expense not found'; 401 is answered only when the expense exists.
C6_MissingExpense ==
    [][(Responds /\ resp'.op \in ByIdOps) =>
          /\ FindById(db, resp'.id) = {} =>
                /\ db' = db
                /\ IF resp'.op = "put" /\ UpdateErrors(resp'.req) # {}
                   THEN resp'.status = 400
                   ELSE IF ~IsObjectId(resp'.id)
                   THEN resp'.status = 500 /\ resp'.body = [message |-> "Server error"]
                   ELSE resp'.status = 404 /\ resp'.body = [message |-> "Expense not found"]
          /\ resp'.status = 401 => FindById(db, resp'.id) # {}]_vars

\* A DELETE of an id that was deleted before got 404 while expenses are stored.
C6_Witness ==
    /\ resp.op = "delete"
    /\ resp.status = 404
    /\ resp.id <= nextId
    /\ db # {}

\* C7: when the owner's DELETE answers 200 'Expense removed' the expense is
\* gone: a GET by that id now answers 404, no unfiltered list of the owner
\* holds it, and the stats totals have dropped by its amount.
C7_DeleteRemoves ==
    [][(Responds /\ resp'.op = "delete" /\ resp'.status = 200) =>
          /\ resp'.body = [message |-> "Expense removed"]
          /\ AccessStatus(db', resp'.caller, resp'.id) = 404
          /\ \A items \in SortByDateDesc(Find(db', BuildQuery(resp'.caller, [limit |-> "5"]))) :
                 \A i \in 1..Len(items) : items[i]._id # resp'.id
          /\ \E d \in db :
                 /\ d._id = resp'.id
                 /\ TotalOrZero(AggregateTotal(db', resp'.caller))
                       = TotalOrZero(AggregateTotal(db, resp'.caller)) - d.amount
                 /\ \A g \in GroupByCategory(MatchUser(db', resp'.caller)) :
                        g.count = Cardinality({e \in db : /\ e.userId = resp'.caller
                                                          /\ e.category = g._id
                                                          /\ e._id # resp'.id})]_vars

\* An owner deleted one of two expenses.
C7_Witness ==
    /\ resp.op = "delete"
    /\ resp.status = 200
    /\ \E d \in db : d.userId = resp.caller /\ d.amount > 0

\* Case-insensitive substring test, as the claim reads `search`.
ContainsIgnoreCase(text, s) ==
    \E i \in 1..(Len(text) + 1) :
        /\ i + Len(s) - 1 <= Len(text)
        /\ \A j \in 1..Len(s) : ToLower(s[j]) = ToLower(text[i + j - 1])

\* The filters of the claim on one expense.
PassesFilters(d, q) ==
    /\ (Has(q, "search") /\ q.search # <<>>) => ContainsIgnoreCase(d.description, q.search)
    /\ (Has(q, "category") /\ q.category # "") => d.category = q.category
    /\ (Has(q, "startDate") /\ q.startDate # "") => ParseDate(q.startDate) <= d.date
    /\ (Has(q, "endDate") /\ q.endDate # "") => d.date <= ParseDate(q.endDate)
    /\ (Has(q, "minAmount") /\ q.minAmount # "") => ToNumber(q.minAmount) <= d.amount
    /\ (Has(q, "maxAmount") /\ q.maxAmount # "") => d.amount <= ToNumber(q.maxAmount)

\* C8, as stated: GET /api/expenses returns exactly the caller's expenses
\* that pass all supplied filters, `search` being a case-insensitive substring
\* of the description.
C8_Original ==
    resp.op = "list" =>
        ItemSet(resp.body.items) = {d \in db : d.userId = resp.caller /\ PassesFilters(d, resp.req)}

IsNonIncreasingByDate(items) ==
    \A i, j \in 1..Len(items) : i < j => items[i].date >= items[j].date

\* C9: every list response is ordered by date non-increasing, and an expense
\* of the caller dated later than all the caller's others is the first
\* element of an unfiltered list.
C9_ListNewestFirst ==
    resp.op = "list" =>
        /\ IsNonIncreasingByDate(resp.body.items)
        /\ NoFilters(resp.req) =>
              \A d \in db :
                  (/\ d.userId = resp.caller
                   /\ \A e \in db : (e.userId = resp.caller /\ e # d) => e.date < d.date)
                  => resp.body.items[1] = d

\* An unfiltered list of two expenses with different dates, the one created
\* last being the newest.
C9_Witness ==
    /\ resp.op = "list"
    /\ NoFilters(resp.req)
    /\ Len(resp.body.items) = 2
    /\ resp.body.items[1].date > resp.body.items[2].date
    /\ resp.body.items[1]._id > resp.body.items[2]._id

\* The body is invalid for POST in the sense of the claim.
InvalidForCreate(b) ==
    \/ ~Has(b, "amount")
    \/ ~IsNumeric(b.amount)
    \/ ToNumber(b.amount) < 0
    \/ ~Has(b, "category") \/ b.category = ""
    \/ ~Has(b, "description") \/ Trim(b.description) = <<>>
    \/ ~Has(b, "paymentMethod") \/ b.paymentMethod = ""
    \/ Has(b, "date") /\ ~IsISO8601(b.date)

\* The body is invalid for PUT in the sense of the claim.
InvalidForUpdate(b) ==
    \/ Has(b, "amount") /\ (~IsNumeric(b.amount) \/ ToNumber(b.amount) < 0)
    \/ Has(b, "description") /\ Trim(b.description) = <<>>
    \/ Has(b, "date") /\ ~IsISO8601(b.date)

C11_Original ==
    resp # NoResp => resp.status # 500

Mine == {d \in db : d.userId = resp.caller}

\* C15: for a user with no expenses GET /api/expenses/stats returns
\* totalExpenses = 0, byCategory = [] and monthlyExpenses = [].
C15_EmptyStats ==
    (resp.op = "stats" /\ Mine = {}) =>
        /\ resp.status = 200
        /\ resp.body = [totalExpenses |-> 0, byCategory |-> <<>>, monthlyExpenses |-> <<>>]

\* Stats of a user without expenses while another user has some.
C15_Witness ==
    /\ resp.op = "stats"
    /\ Mine = {}
    /\ \E d \in db : d.amount > 0

\* C16: byCategory has exactly one entry for each category in which the
\* caller has an expense, with the sum and the number of the caller's
\* expenses of that category, ordered by total non-increasing.
C16_ByCategory ==
    resp.op = "stats" =>
        LET bc == resp.body.byCategory
        IN /\ \A c \in Categories :
                  Cardinality({i \in 1..Len(bc) : bc[i]._id = c})
                      = IF \E d \in Mine : d.category = c THEN 1 ELSE 0
           /\ \A i \in 1..Len(bc) :
                  /\ bc[i]._id \in Categories
                  /\ bc[i].total = SumAmounts({d \in Mine : d.category = bc[i]._id})
                  /\ bc[i].count = Cardinality({d \in Mine : d.category = bc[i]._id})
           /\ \A i, j \in 1..Len(bc) : i < j => bc[i].total >= bc[j].total

\* Stats with two categories of different totals.
C16_Witness ==
    /\ resp.op = "stats"
    /\ Len(resp.body.byCategory) = 2
    /\ resp.body.byCategory[1].total > resp.body.byCategory[2].total

\* Six months before the instant of the requests of the model (2024-08-20).
CutoffInstant == Instant(2024, 2, 20)

\* The caller's expenses of year y, month m, dated at or after the cutoff.
RecentOfMonth(y, m) ==
    {d \in Mine : d.date >= CutoffInstant /\ YearOf(d.date) = y /\ MonthOf(d.date) = m}

C13_AuthBeforeHandler ==
    [][/\ (Responds /\ resp'.op = "auth") =>
              /\ resp'.token \in {"", "bad"}
              /\ resp'.route \in Routes
              /\ resp'.status = 401
              /\ ~CarriesExpense(resp'.body)
              /\ db' = db /\ users' = users /\ nextId' = nextId /\ inflight' = inflight
       /\ (Responds /\ resp'.op \in ByIdOps \cup {"create", "list", "stats"}) =>
              resp'.caller \in Users
       /\ \A s \in Slots : inflight'[s] # Idle => inflight'[s].caller \in Users]_vars

\* A DELETE with a token that does not verify was rejected while expenses
\* are stored.
C13_Witness ==
    /\ resp.op = "auth"
    /\ resp.route = "DELETE /api/expenses/:id"
    /\ resp.token = "bad"
    /\ resp.status = 401
    /\ db # {}

\* No two documents of the collection hold the same email, compared
\* case-insensitively.
EmailsDistinct(coll) ==
    \A x, y \in coll : x # y => (x._id # y._id /\ LowerCase(x.email) # LowerCase(y.email))

\* The request asks for an email that a different user holds.
AsksTakenEmail(r, coll) ==
    /\ r.op \in {"register", "putProfile"}
    /\ Has(r.req, "email")
    /\ \E x \in coll : /\ LowerCase(x.email) = LowerCase(r.req.email)
                       /\ r.op = "putProfile" => x._id # r.caller

\* C14, as stated: after every step - registrations and profile updates
\* overlapping in any way - no two user records hold the same email, compared
\* case-insensitively; and a registration or profile update asking for an
\* email that a different user holds fails and leaves the users unchanged.
C14_Original ==
    [][/\ EmailsDistinct(users')
       /\ (Responds /\ AsksTakenEmail(resp', users)) =>
              /\ resp'.status \notin {200, 201}
              /\ users' = users]_vars

\* C14, the part about the stored records alone: no two user records hold the
\* same email, compared case-insensitively, and a request asking for an email
\* that a different user holds changes nothing, whatever it is answered.
C14_EmailsDistinct ==
    [][/\ EmailsDistinct(users')
       /\ (Responds /\ AsksTakenEmail(resp', users)) => users' = users]_vars

\* Two overlapping profile updates asked for the same free email: the one that
\* saved second was stopped by the unique index.
C14_Witness ==
    /\ resp.op = "putProfile"
    /\ resp.status = 500
    /\ resp.req.email = "c@x.com"
    /\ \E x \in users : x._id # resp.caller /\ x.email = "c@x.com"

SavingPut(s) ==
    /\ inflight[s].op = "put"
    /\ inflight'[s] = Idle
    /\ Responds
    /\ resp'.op = "put"

DeletedUnder(r, coll) == r.op = "put" /\ FindById(coll, r.id) = {}

\* C20, as stated: a PUT whose expense was deleted between its read and its
\* save returns 200 and the expense is stored again.
C20_Original ==
    [][\A s \in Slots : (SavingPut(s) /\ DeletedUnder(inflight[s], db)) =>
          /\ resp'.status = 200
          /\ FindById(db', inflight[s].id) # {}]_vars

\* C20: a PUT whose expense was deleted between its read and its save fails:
\* save() matches no document, the handler answers 500 'Server error', and
\* the expense stays deleted - nothing is written back.
C20_DeleteWins ==
    [][\A s \in Slots : (SavingPut(s) /\ DeletedUnder(inflight[s], db)) =>
          /\ resp'.status = 500
          /\ resp'.body = [message |-> "Server error"]
          /\ db' = db
          /\ FindById(db', inflight[s].id) = {}]_vars

\* A PUT with a valid body read expense 1, a DELETE removed it, and the PUT's
\* save was answered 500 with the expense still gone.
C20_Witness ==
    /\ resp.op = "put"
    /\ resp.status = 500
    /\ resp.id = 1
    /\ DOMAIN resp.req = {"amount", "userId"}
    /\ FindById(db, 1) = {}
    /\ nextId >= 1

\* The ids of the expenses user u owns
OwnedIds(coll, u) == {d._id : d \in MatchUser(coll, u)}

\* C25: no step changes the userId of a stored expense, whatever the body of a
\* PUT carries; the set of expenses a user owns changes only in a step that
\* answers that user's own create or delete.
C25_OwnerFixed ==
    [][/\ \A old \in db : \A new \in db' : new._id = old._id => new.userId = old.userId
       /\ \A u \in Users :
              OwnedIds(db', u) # OwnedIds(db, u) =>
                  /\ Responds
                  /\ resp'.caller = u
                  /\ resp'.op \in {"create", "delete"}
                  /\ resp'.status \in {200, 201}]_vars

\* A PUT whose body names another user as userId was answered 200 and the
\* expense is still the caller's, with the amount the PUT gave.
C25_Witness ==
    /\ resp.op = "put"
    /\ resp.status = 200
    /\ Has(resp.req, "userId")
    /\ resp.req.userId # resp.caller
    /\ \E d \in db : /\ d._id = resp.id
                     /\ d.userId = resp.caller
                     /\ d.amount = 0

RECURSIVE SumTotals(_)
SumTotals(entries) ==
    IF entries = <<>> THEN 0 ELSE Head(entries).total + SumTotals(Tail(entries))

\* C26, as stated: in every GET /stats response totalExpenses equals the sum of
\* the totals of byCategory, creates and deletes of the same user's expenses
\* being served between the handler's aggregates.
C26_Original ==
    (resp.op = "stats" /\ resp.status = 200) =>
        resp.body.totalExpenses = SumTotals(resp.body.byCategory)

\* The caller's expenses dated in the calendar month of `now`
InMonthOf(now) ==
    {d \in Mine : YearOf(d.date) = YearOf(now) /\ MonthOf(d.date) = MonthOf(now)}

\* C27, as stated: the 'This Month' card drawn from a GET /stats response shows
\* the number of the caller's expenses dated in the current calendar month (0
\* when there is none).
C27_Original ==
    (resp.op = "stats" /\ resp.status = 200) =>
        \A now \in Nows : ThisMonthCard(resp.body) = Cardinality(InMonthOf(now))

\* Expense e satisfies every filter that is not empty.
SatisfiesFilters(e, f) ==
    /\ f.search # <<>> => ContainsIgnoreCase(e.description, f.search)
    /\ f.category # "" => e.category = f.category
    /\ f.startDate # "" => ParseDate(f.startDate) <= e.date
    /\ f.endDate # "" => e.date <= ParseDate(f.endDate)

RECURSIVE Satisfying(_, _)
Satisfying(list, f) ==
    IF list = <<>> THEN <<>>
    ELSE (IF SatisfiesFilters(Head(list), f) THEN <<Head(list)>> ELSE <<>>)
             \o Satisfying(Tail(list), f)

\* C21: on the Expenses page, after the effects of any change of the list or of
\* the filters, filteredExpenses is exactly the elements of expenses, in the
\* same order, that satisfy every non-empty filter; with all filters empty (as
\* after clearFilters) it equals expenses.
C21_FilteredView ==
    page.mounted =>
        /\ page.filteredExpenses = Satisfying(page.expenses, page.filters)
        /\ page.filters = BlankFilters => page.filteredExpenses = page.expenses

\* An end date is set and keeps one of the two expenses of the list out of the view.
C21_Witness ==
    /\ page.mounted
    /\ page.filters.endDate = "2024-03-10"
    /\ page.filters.search = <<>>
    /\ page.filters.category = ""
    /\ Len(page.expenses) = 2
    /\ Len(page.filteredExpenses) = 1

\* The expenses shown in the page's list
Listed == {page.expenses[i] : i \in 1..Len(page.expenses)}

\* C23, as stated: on the Expenses page, once the initial fetch has succeeded
\* and every request sent since has completed successfully, the local list
\* holds exactly the expenses the server holds for the user, whatever the
\* order of the user's actions and of the responses.
C23_Original ==
    (page.mounted /\ ~page.loading /\ pending = {} /\ ~toasts.failed) =>
        Listed = MatchUser(db, Me)

\* C24: each time the modal opens, its form holds the fields of the expense
\* being edited, or the blank defaults when adding, whatever was opened, typed
\* or saved in the modal before.
C24_Original ==
    [][(~page.isModalOpen /\ (page.isModalOpen)') =>
          \E today \in Nows :
              (modal.formData)' = InitialFormData((page.editingExpense)', today)]_vars

\* The saves (onSave calls) awaiting their response
SavesPending == {r \in pending : r.kind \in {"add", "edit"}}

\* This step is the continuation of handleSubmit after `await onSave`.
SaveSettles == \E r \in SavesPending : pending' = pending \ {r}

\* C28: when onSave resolves the modal is closed and when it rejects the modal
\* is left as it was, open or not, with the entered data; in both cases loading
\* is false afterwards; a save is started only while loading is false, so at
\* most one is awaited at a time, and loading is true exactly while it is.
C28_SubmitSettles ==
    [][/\ SaveSettles =>
            /\ ~(modal.loading)'
            /\ (toasts.last)' \in {ToastAdded, ToastUpdated, ToastAddFailed, ToastUpdateFailed}
            /\ (toasts.last)' \in {ToastAdded, ToastUpdated} =>
                    /\ ~(page.isModalOpen)'
                    /\ (page.editingExpense)' = NoExpense
            /\ (toasts.last)' \in {ToastAddFailed, ToastUpdateFailed} =>
                    /\ (page.isModalOpen)' = page.isModalOpen
                    /\ (page.editingExpense)' = page.editingExpense
                    /\ (modal.formData)' = modal.formData
       /\ ~(SavesPending' \subseteq SavesPending) =>
            /\ SavesPending = {}
            /\ ~modal.loading
            /\ page.isModalOpen
       /\ Cardinality(SavesPending') <= 1
       /\ (modal.loading)' <=> SavesPending' # {}]_vars

\* A save was rejected, and the modal is still open with what the user typed.
C28_Witness ==
    /\ toasts.last = ToastAddFailed
    /\ page.isModalOpen
    /\ ~modal.loading
    /\ modal.formData.amount = "1"
    /\ modal.formData.description = <<"c">>
    /\ SavesPending = {}

\* C30: no save is ever sent with an empty amount, an empty description or an
\* amount that is not positive; the submit that is refused shows its toast and
\* leaves the requests, the form, loading (false) and the open modal as they were.
C30_NoInvalidSave ==
    [][/\ \A r \in SavesPending' :
              /\ r.body.amount # ""
              /\ r.body.description # <<>>
              /\ ToNumber(r.body.amount) > 0
       /\ (toasts' # toasts /\ (toasts.last)' \in {ToastRequired, ToastAmount}) =>
              /\ (modal.formData.amount = "" \/ modal.formData.description = <<>>
                     \/ ToNumber(modal.formData.amount) <= 0)
              /\ pending' = pending
              /\ modal' = modal
              /\ ~modal.loading
              /\ page' = page
              /\ page.isModalOpen
              /\ db' = db]_vars

\* A submit with amount -1 was refused.
C30_Witness ==
    /\ toasts.last = ToastAmount
    /\ page.isModalOpen
    /\ ~modal.loading
    /\ modal.formData.amount = "-1"
    /\ modal.formData.description = <<"c">>
    /\ pending = {}

\* The first n records of a list, record by record
FirstRecords(list, n) ==
    [i \in 1..(IF Len(list) < n THEN Len(list) ELSE n) |-> list[i]]

DashboardRejected == dashboard.statsRes = Rejected \/ dashboard.expensesRes = Rejected

DashboardFulfilled ==
    dashboard.statsRes.state = "fulfilled" /\ dashboard.expensesRes.state = "fulfilled"

\* C29: the Dashboard's stats and recentExpenses are set only when both
\* requests succeeded, to the stats response and to the first 5 records at most
\* of the list response; when either request fails stats stays null and
\* recentExpenses empty, and the step in which the failure is taken shows the
\* error toast.
C29_AllOrNothing ==
    [][/\ (~DashboardFulfilled' =>
              /\ (dashboard.stats)' = NoStats
              /\ (dashboard.recentExpenses)' = <<>>)
       /\ (DashboardFulfilled' =>
              /\ (dashboard.stats)' = (dashboard.statsRes.data)'
              /\ (dashboard.recentExpenses)' =
                     FirstRecords((dashboard.expensesRes.data)', 5)
              /\ Len((dashboard.recentExpenses)') <= 5)
       /\ (~DashboardRejected /\ DashboardRejected') =>
              /\ (toasts.last)' = ToastDashboardFailed
              /\ ~(dashboard.loading)'
       /\ (DashboardRejected /\ dashboard' # dashboard) => toasts' = toasts]_vars

\* The stats request succeeded and the list request failed: nothing was set.
C29_Witness ==
    /\ dashboard.statsRes.state = "fulfilled"
    /\ dashboard.statsRes.data.totalExpenses > 0
    /\ dashboard.expensesRes = Rejected
    /\ dashboard.stats = NoStats
    /\ dashboard.recentExpenses = <<>>
    /\ toasts.last = ToastDashboardFailed

\* C22: on the Expenses page and on the Dashboard loading starts true, becomes
\* false once the mount-time fetch has settled, by a response or by a failure,
\* and never becomes true again.
C22_LoadingSettles ==
    /\ page.loading /\ dashboard.loading
    /\ [][/\ ~page.loading => ~(page.loading)'
          /\ ~dashboard.loading => ~(dashboard.loading)']_vars
    /\ (page.mounted ~> ~page.loading)
    /\ (dashboard.mounted ~> ~dashboard.loading)

\* The Expenses fetch failed and the Dashboard's two requests succeeded: both
\* pages have left the loading state.
C22_Witness ==
    /\ page.mounted /\ ~page.loading /\ toasts.last = ToastLoadFailed
    /\ dashboard.mounted /\ ~dashboard.loading /\ DashboardFulfilled
====
